---- MODULE Spec2Model ----
(***************************************************************************)
(* The unicast receive path of the transport                               *)
(* (io/zenoh-transport/src/unicast/rx.rs): receive_message, handle_frame,  *)
(* handle_close and trigger_callback, with the per-lane receive state      *)
(* (sequence-number tracker and defragmenter) they act on.                 *)
(***************************************************************************)
EXTENDS Integers, Sequences, FiniteSets, TLC

(***************************************************************************)
(* Bounds                                                                  *)
(***************************************************************************)
\* Bits of the sequence-number resolution: sns live in 0 .. 2^SnBits - 1.
SnBits == 3
\* Most fragments the environment lets a defragmenter hold.
MaxFrags == 2
\* Longest in-order stream of frames the observer follows on a lane.
MaxStream == 2

\* The extensions of a chain a peer writes.
MaxExts == 3
\* How far the peers take the sn of a lane when several lanes are read.
MaxLaneFrames == 2
\* Bits of a ZInt on the wire and in a Request, in place of 64.
ZIntBits == 8

(***************************************************************************)
(* Values                                                                  *)
(***************************************************************************)
Resolution == 2 ^ SnBits

Links == {"l1", "l2"}

Reliabilities == {"Reliable", "BestEffort"}

Priorities == {"Control", "Data"}

\* Priority::default()
DefaultPriority == "Data"

\* `channel.priority as usize`
PriorityIndex(p) == IF p = "Control" THEN 0 ELSE 1

\* conduit_rx: one conduit per priority, a reliable and a best-effort lane
\* in each.
Lanes ==
    {<<c, r>> : c \in {PriorityIndex(p) : p \in Priorities},
                r \in Reliabilities}

NoLane == <<-1, "None">>

PeerIds == {"pidA", "pidB"}

NoPid == "none"

Bytes == {0, 1}

\* A ZenohMessage is modelled by its body, a short sequence of bytes.
None == [some |-> FALSE, msg |-> <<>>]

Some(m) == [some |-> TRUE, msg |-> m]

\* The reader's read_zenoh_message over the reassembled buffer: the
\* serialisation is a header byte 1 followed by the body; anything else
\* does not parse.
Parse(buf) ==
    IF Len(buf) >= 1 /\ buf[1] = 1 THEN Some(Tail(buf)) ELSE None

RECURSIVE Concat(_)
Concat(bufs) ==
    IF bufs = <<>> THEN <<>> ELSE Head(bufs) \o Concat(Tail(bufs))

(***************************************************************************)
(* SeqNum: the tracker of a lane                                           *)
(***************************************************************************)
\* Half the range: the forward window.
SemiInt == Resolution \div 2

\* precedes(next): an error for a value outside the resolution, otherwise
\* whether next is one of the values of the forward window, the SemiInt - 1
\* that follow the current value.
Precedes(cur, next) ==
    IF next >= Resolution THEN "Err"
    ELSE LET gap == (next - cur) % Resolution
         IN  IF gap >= 1 /\ gap < SemiInt THEN "True" ELSE "False"

(***************************************************************************)
(* DefragBuffer: the defragmenter of a lane                                *)
(***************************************************************************)
EmptyDefrag == [sync |-> 0, expected |-> 0, frags |-> <<>>]

DefragIsEmpty(d) == d.frags = <<>>

\* clear(): drops the fragments; what an empty defragmenter expects next is
\* set by sync before it is used again.
DefragClear(d) == EmptyDefrag

DefragSync(d, sn) == [d EXCEPT !.sync = sn, !.expected = sn]

\* push(sn, buf): appends when sn is the expected next one; otherwise fails
\* and clears.
DefragPush(d, sn, buf) ==
    IF sn # d.expected
    THEN [ok |-> FALSE, defrag |-> DefragClear(d)]
    ELSE [ok |-> TRUE,
          defrag |-> [d EXCEPT !.frags = Append(@, [sn |-> sn, buf |-> buf]),
                               !.expected = (sn + 1) % Resolution]]

DefragBufs(d) == [i \in 1..Len(d.frags) |-> d.frags[i].buf]

\* defragment(): parses the concatenation; clears on success. Whether a
\* failed parse leaves the fragments is not fixed: keep chooses.
Defragment(d, keep) ==
    LET r == Parse(Concat(DefragBufs(d)))
    IN  [res |-> r,
         defrag |-> IF r.some \/ ~keep THEN DefragClear(d) ELSE d]

(***************************************************************************)
(* Messages                                                                *)
(***************************************************************************)
Fragment(buffer, is_final) ==
    [kind |-> "Fragment", buffer |-> buffer, is_final |-> is_final,
     messages |-> <<>>]

Messages(messages) ==
    [kind |-> "Messages", buffer |-> <<>>, is_final |-> FALSE,
     messages |-> messages]

Frame(priority, reliability, sn, payload) ==
    [body |-> "Frame", priority |-> priority, reliability |-> reliability,
     sn |-> sn, payload |-> payload]

Close(pid, link_only) ==
    [body |-> "Close", pid |-> pid, link_only |-> link_only]

KeepAlive == [body |-> "KeepAlive"]

\* Any other transport body (InitSyn, OpenAck, ...).
Other == [body |-> "Other"]

NoMsg == [body |-> "None"]

(***************************************************************************)
(* trigger_callback                                                        *)
(***************************************************************************)
\* The slot's read guard kept while the handler runs.
TriggerCallbackGuarded(callback, cbret) ==
    IF callback
    THEN [invoked |-> TRUE, ret |-> cbret, slot_locked |-> TRUE]
    ELSE [invoked |-> FALSE, ret |-> "Ok", slot_locked |-> FALSE]

\* callback: whether the slot holds a handler; cbret: what the handler's
\* handle_message returns for this message; slot_locked: whether the
\* slot's read lock is held while handle_message runs (the guard of zread!
\* is dropped once the handler is cloned out).
TriggerCallback(callback, cbret) ==
    IF callback
    THEN [invoked |-> TRUE, ret |-> cbret, slot_locked |-> FALSE]
    ELSE [invoked |-> FALSE, ret |-> "Ok", slot_locked |-> FALSE]

(***************************************************************************)
(* handle_frame, up to the first callback: the lane it leaves, the value   *)
(* it returns when it returns before any callback (ret = "Deliver" when it *)
(* goes on to hand `deliver` to trigger_callback, one message at a time,   *)
(* returning at the first error), and whether the sn was accepted.         *)
(***************************************************************************)
HandleFrameBody(lane, sn, payload, keep) ==
    LET precedes == Precedes(lane.sn, sn)
        set      == [lane EXCEPT !.sn = sn]
        synced   == IF DefragIsEmpty(set.defrag)
                    THEN DefragSync(set.defrag, sn)
                    ELSE set.defrag
        pushed   == DefragPush(synced, sn, payload.buffer)
        defragd  == Defragment(pushed.defrag, keep)
    IN  IF precedes = "Err"
        THEN [lane |-> lane, ret |-> "Err", deliver |-> <<>>,
              accepted |-> FALSE]
        ELSE IF precedes = "False"
        THEN [lane |-> [lane EXCEPT !.defrag =
                           IF ~DefragIsEmpty(@) THEN DefragClear(@) ELSE @],
              ret |-> "Ok", deliver |-> <<>>, accepted |-> FALSE]
        ELSE IF payload.kind = "Fragment"
        THEN IF ~pushed.ok
             THEN [lane |-> [set EXCEPT !.defrag = pushed.defrag],
                   ret |-> "Err", deliver |-> <<>>, accepted |-> TRUE]
             ELSE IF payload.is_final
             THEN IF ~defragd.res.some
                  THEN [lane |-> [set EXCEPT !.defrag = defragd.defrag],
                        ret |-> "Err", deliver |-> <<>>, accepted |-> TRUE]
                  ELSE [lane |-> [set EXCEPT !.defrag = defragd.defrag],
                        ret |-> "Deliver", deliver |-> <<defragd.res.msg>>,
                        accepted |-> TRUE]
             ELSE [lane |-> [set EXCEPT !.defrag = pushed.defrag],
                   ret |-> "Ok", deliver |-> <<>>, accepted |-> TRUE]
        ELSE [lane |-> set,
              ret |-> IF payload.messages = <<>> THEN "Ok" ELSE "Deliver",
              deliver |-> payload.messages, accepted |-> TRUE]

\* A batch handed to the callback last message first.
HandleFrameReversed(lane, sn, payload, keep) ==
    LET r == HandleFrameBody(lane, sn, payload, keep)
    IN  [r EXCEPT !.deliver =
            [i \in 1..Len(@) |-> r.deliver[Len(r.deliver) + 1 - i]]]

\* The messages of a frame that does not precede handed to the callback.
HandleFrameDeliverDropped(lane, sn, payload, keep) ==
    LET r == HandleFrameBody(lane, sn, payload, keep)
    IN  IF Precedes(lane.sn, sn) = "False" /\ payload.messages # <<>>
        THEN [r EXCEPT !.ret = "Deliver", !.deliver = payload.messages]
        ELSE r

\* The fragments kept when a frame is dropped.
HandleFrameKeepFragments(lane, sn, payload, keep) ==
    LET r == HandleFrameBody(lane, sn, payload, keep)
    IN  IF Precedes(lane.sn, sn) = "False" THEN [r EXCEPT !.lane = lane]
        ELSE r

\* Each fragment handed to the callback as it arrives.
HandleFramePartial(lane, sn, payload, keep) ==
    LET r == HandleFrameBody(lane, sn, payload, keep)
    IN  IF payload.kind = "Fragment" /\ ~payload.is_final /\ r.accepted
           /\ r.ret = "Ok"
        THEN [r EXCEPT !.ret = "Deliver", !.deliver = <<payload.buffer>>]
        ELSE r

\* The defragmenter synced at every fragment, empty or not.
HandleFrameAlwaysSync(lane, sn, payload, keep) ==
    HandleFrameBody(
        IF payload.kind = "Fragment" /\ Precedes(lane.sn, sn) = "True"
        THEN [lane EXCEPT !.defrag = DefragSync(@, sn)] ELSE lane,
        sn, payload, keep)

\* The error of push ignored for a fragment that is not the final one.
HandleFrameIgnorePush(lane, sn, payload, keep) ==
    LET r == HandleFrameBody(lane, sn, payload, keep)
    IN  IF payload.kind = "Fragment" /\ ~payload.is_final /\ r.accepted
           /\ r.ret = "Err"
        THEN [r EXCEPT !.ret = "Ok"]
        ELSE r

\* The sn set before the frame is found not to precede.
HandleFrameSetDropped(lane, sn, payload, keep) ==
    LET r == HandleFrameBody(lane, sn, payload, keep)
    IN  IF Precedes(lane.sn, sn) = "False" THEN [r EXCEPT !.lane.sn = sn]
        ELSE r

\* Only the immediate successor of the lane's sn accepted.
HandleFrameSuccessorOnly(lane, sn, payload, keep) ==
    IF Precedes(lane.sn, sn) = "True" /\ sn # (lane.sn + 1) % Resolution
    THEN [HandleFrameBody([lane EXCEPT !.sn = sn], sn, payload, keep)
             EXCEPT !.lane.sn = lane.sn]
    ELSE HandleFrameBody(lane, sn, payload, keep)

\* The failure of defragment ignored.
HandleFrameIgnoreDefragment(lane, sn, payload, keep) ==
    LET r == HandleFrameBody(lane, sn, payload, keep)
    IN  IF payload.kind = "Fragment" /\ payload.is_final /\ r.accepted
           /\ r.ret = "Err"
        THEN [r EXCEPT !.ret = "Ok"]
        ELSE r

\* The sn put back when the frame fails.
HandleFrameRollBack(lane, sn, payload, keep) ==
    LET r == HandleFrameBody(lane, sn, payload, keep)
    IN  IF r.accepted /\ r.ret = "Err" THEN [r EXCEPT !.lane.sn = lane.sn]
        ELSE r

\* receive_message's call of handle_frame with the lane's guard.
HandleFrame(lane, sn, payload, keep) ==
    HandleFrameBody(lane, sn, payload, keep)

(***************************************************************************)
(* handle_close over the links' state st = [rx_stop, tx_stop, tasks, open, *)
(* alive]: the value returned and the state left. A task spawned for link  *)
(* l is tasks[l]: "none", "del_link" or "delete" once spawned, "done".     *)
(***************************************************************************)
\* stop_rx(link): signals the link's rx task to stop.
StopRx(st, l) == [st EXCEPT !.rx_stop[l] = TRUE]

\* stop_tx(link): signals the link's tx task to stop.
StopTx(st, l) == [st EXCEPT !.tx_stop[l] = TRUE]

\* task::spawn of the deletion.
Spawn(st, l, link_only) ==
    [st EXCEPT !.tasks[l] = IF link_only THEN "del_link" ELSE "delete"]

\* The deletion done by the calling task itself instead of a spawned one.
HandleCloseInline(st, local_pid, l, pid, link_only) ==
    IF pid # NoPid /\ pid # local_pid
    THEN [ret |-> "Ok", st |-> st]
    ELSE LET stopped == StopTx(StopRx(st, l), l)
         IN  [ret |-> "Ok",
              st |-> IF link_only
                     THEN [stopped EXCEPT !.open[l] = FALSE]
                     ELSE [stopped EXCEPT !.open = [k \in Links |-> FALSE],
                                          !.alive = FALSE]]

\* The pid check left out.
HandleCloseAnyPid(st, local_pid, l, pid, link_only) ==
    [ret |-> "Ok", st |-> Spawn(StopTx(StopRx(st, l), l), l, link_only)]

HandleClose(st, local_pid, l, pid, link_only) ==
    IF pid # NoPid /\ pid # local_pid
    THEN [ret |-> "Ok", st |-> st]
    ELSE [ret |-> "Ok", st |-> Spawn(StopTx(StopRx(st, l), l), l, link_only)]

(***************************************************************************)
(* receive_message: the conduit a Frame selects (-1: unknown conduit).     *)
(***************************************************************************)
\* Without QoS every priority sent to the single conduit.
SelectConduitSingle(qos, priority) ==
    IF qos THEN PriorityIndex(priority) ELSE 0

SelectConduit(qos, priority) ==
    IF qos THEN PriorityIndex(priority)
    ELSE IF priority = DefaultPriority THEN 0
    ELSE -1

\* The reliable lane whatever the channel's reliability.
SelectLaneReliable(c, reliability) == <<c, "Reliable">>

\* `match channel.reliability`: the lane of conduit c whose mutex
\* receive_message locks for handle_frame.
SelectLane(c, reliability) == <<c, reliability>>

(***************************************************************************)
(* The codec of Request (zenoh-codec/src/network/request.rs) over a wire   *)
(* of bytes, with the primitive and extension codecs it calls.             *)
(***************************************************************************)
\* ZInt values are kept modulo 2^ZIntBits.
ZInts == 0..(2 ^ ZIntBits - 1)

\* A reader's result: DidntRead, or a value with the bytes left.
DidntRead == [ok |-> FALSE, val |-> 0, rest |-> <<>>]

Read(val, rest) == [ok |-> TRUE, val |-> val, rest |-> rest]

\* varint: 7 bits a byte, low group first, the high bit set on all but the
\* last byte.
RECURSIVE WriteZInt(_)
WriteZInt(n) ==
    IF n < 128 THEN <<n>>
    ELSE <<128 + (n % 128)>> \o WriteZInt(n \div 128)

\* The value read from buf with the bytes left; fails on a short buffer or
\* a value beyond the width. scale is the weight of the next group.
RECURSIVE ReadZIntFrom(_, _, _)
ReadZIntFrom(buf, acc, scale) ==
    IF buf = <<>> \/ scale > 2 ^ ZIntBits THEN DidntRead
    ELSE LET b == Head(buf)
             v == acc + (b % 128) * scale
         IN  IF v \notin ZInts THEN DidntRead
             ELSE IF b < 128 THEN Read(v, Tail(buf))
             ELSE ReadZIntFrom(Tail(buf), v, scale * 128)

ReadZInt(buf) == ReadZIntFrom(buf, 0, 1)

\* byte array: varint length, then the bytes.
WriteBuf(b) == WriteZInt(Len(b)) \o b

ReadBuf(buf) ==
    LET n == ReadZInt(buf)
    IN  IF ~n.ok \/ n.val > Len(n.rest) THEN DidntRead
        ELSE Read(SubSeq(n.rest, 1, n.val),
                  SubSeq(n.rest, n.val + 1, Len(n.rest)))

\* wire expression: varint scope, then the suffix as a byte array when the
\* caller's condition (the N flag) says so.
WireExpr(scope, suffix) == [scope |-> scope, suffix |-> suffix]

HasSuffix(we) == we.suffix # <<>>

WriteWireExpr(we) ==
    WriteZInt(we.scope)
        \o (IF HasSuffix(we) THEN WriteBuf(we.suffix) ELSE <<>>)

ReadWireExpr(buf, cond) ==
    LET sc == ReadZInt(buf)
        sf == ReadBuf(sc.rest)
    IN  IF ~sc.ok THEN DidntRead
        ELSE IF ~cond THEN Read(WireExpr(sc.val, <<>>), sc.rest)
        ELSE IF ~sf.ok THEN DidntRead
        ELSE Read(WireExpr(sc.val, sf.val), sf.rest)

\* Header byte: the message id in the five low bits, the flags above.
imsg_mid(header) == header % 32

imsg_has_flag(header, flag) == (header \div flag) % 2 = 1

\* Extension header: Z (more) | ENC | id.
EncUnit == 0

EncZ64 == 1

EncZBuf == 2

EncReserved == 3

ExtHeader(id, enc, more) == (IF more THEN 128 ELSE 0) + enc * 32 + id

iext_eid(ext) == ext % 32

iext_enc(ext) == (ext \div 32) % 4

iext_more(ext) == ext >= 128

\* An extension on the wire: its header, then the body its ENC says: none,
\* a varint or a byte array.
WriteExt(id, enc, body, more) ==
    <<ExtHeader(id, enc, more)>>
        \o (IF enc = EncZ64 THEN WriteZInt(body)
            ELSE IF enc = EncZBuf THEN WriteBuf(body)
            ELSE <<>>)

\* The body of the extension with header ext, read as the ENC of the
\* header says: [ok, val, rest] with more. A reserved ENC fails.
ReadExtBody(buf, ext) ==
    LET enc == iext_enc(ext)
        z   == ReadZInt(buf)
        b   == ReadBuf(buf)
    IN  IF enc = EncUnit THEN Read(0, buf)
        ELSE IF enc = EncZ64 THEN z
        ELSE IF enc = EncZBuf THEN b
        ELSE DidntRead

\* A typed extension's read: the header must carry the ENC of the type.
ReadTyped(buf, ext, enc) ==
    IF iext_enc(ext) # enc THEN DidntRead ELSE ReadExtBody(buf, ext)

\* extension::skip: the body of an extension of unknown id consumed.
ExtensionSkip(buf, ext) == ReadExtBody(buf, ext)

\* id::REQUEST and the flags of its header.
REQUEST == 28

FlagN == 32

FlagM == 64

FlagZ == 128

\* The ids of the typed extensions, in canonical order.
QoSId == 1

TimestampId == 2

DestinationId == 3

TargetId == 4

\* The defaults of the fields: absent from the wire.
QoSDefault == 0

DestinationDefault == "Queryables"

MappingDefault == "Receiver"

BestMatching == [t |-> "BestMatching", n |-> 0]

All == [t |-> "All", n |-> 0]

AllComplete == [t |-> "AllComplete", n |-> 0]

Complete(n) == [t |-> "Complete", n |-> n]

TargetDefault == BestMatching

\* A writer's result: the bytes, or the failure of a build whose overflow
\* checks stop it.
Wrote(bytes) == [ok |-> TRUE, bytes |-> bytes]

WriteFailed == [ok |-> FALSE, bytes |-> <<>>]

\* WCodec<(DestinationType, bool)>: a unit extension whatever the value.
WriteDestination(d, more) == WriteExt(DestinationId, EncUnit, 0, more)

\* RCodec<(DestinationType, bool)>
ReadDestination(buf, ext) ==
    LET r == ReadTyped(buf, ext, EncUnit)
    IN  IF ~r.ok THEN DidntRead ELSE Read("Subscribers", r.rest)

\* Complete(n) written as 2 + n.
TargetValueShort(rt, wrap) ==
    IF rt.t = "BestMatching" THEN 0
    ELSE IF rt.t = "All" THEN 1
    ELSE IF rt.t = "AllComplete" THEN 2
    ELSE IF 2 + rt.n \in ZInts THEN 2 + rt.n
    ELSE IF wrap THEN (2 + rt.n) % 2 ^ ZIntBits
    ELSE -1

\* The value v of WCodec<(&TargetType, bool)>: 3 + n for Complete(n), in
\* the width of a ZInt; past it the sum wraps (wrap) or the build's
\* overflow check stops the writer (-1).
TargetValue(rt, wrap) ==
    IF rt.t = "BestMatching" THEN 0
    ELSE IF rt.t = "All" THEN 1
    ELSE IF rt.t = "AllComplete" THEN 2
    ELSE IF 3 + rt.n \in ZInts THEN 3 + rt.n
    ELSE IF wrap THEN (3 + rt.n) % 2 ^ ZIntBits
    ELSE -1

\* WCodec<(&TargetType, bool)>
WriteTarget(rt, more, wrap) ==
    LET v == TargetValue(rt, wrap)
    IN  IF v = -1 THEN WriteFailed
        ELSE Wrote(WriteExt(TargetId, EncZ64, v, more))

\* Complete(n) read from 2 + n.
TargetOfShort(v, complete_n) ==
    IF v = 0 THEN Read(BestMatching, <<>>)
    ELSE IF v = 1 THEN Read(All, <<>>)
    ELSE IF v = 2 THEN Read(AllComplete, <<>>)
    ELSE IF complete_n THEN Read(Complete(v - 2), <<>>)
    ELSE DidntRead

\* The TargetType of a value v: the match of RCodec<(TargetType, bool)>,
\* whose Complete arm a build has only with the feature complete_n.
TargetOf(v, complete_n) ==
    IF v = 0 THEN Read(BestMatching, <<>>)
    ELSE IF v = 1 THEN Read(All, <<>>)
    ELSE IF v = 2 THEN Read(AllComplete, <<>>)
    ELSE IF complete_n THEN Read(Complete(v - 3), <<>>)
    ELSE DidntRead

\* RCodec<(TargetType, bool)>
ReadTarget(buf, ext, complete_n) ==
    LET r  == ReadTyped(buf, ext, EncZ64)
        rt == TargetOf(r.val, complete_n)
    IN  IF ~r.ok \/ ~rt.ok THEN DidntRead ELSE Read(rt.val, r.rest)

\* RCodec<(QoSType, bool)>
ReadQoS(buf, ext) == ReadTyped(buf, ext, EncZ64)

\* RCodec<(TimestampType, bool)>
ReadTimestamp(buf, ext) == ReadTyped(buf, ext, EncZBuf)

\* The extension fields of a Request before any extension is read.
DefaultExts ==
    [ext_qos    |-> QoSDefault,
     ext_tstamp |-> None,
     ext_dst    |-> DestinationDefault,
     ext_target |-> TargetDefault]

Request(id, wire_expr, mapping, payload, exts) ==
    [id         |-> id,
     wire_expr  |-> wire_expr,
     mapping    |-> mapping,
     payload    |-> payload,
     ext_qos    |-> exts.ext_qos,
     ext_tstamp |-> exts.ext_tstamp,
     ext_dst    |-> exts.ext_dst,
     ext_target |-> exts.ext_target]

B2N(b) == IF b THEN 1 ELSE 0

\* One more than the extensions to emit.
CountExtsPlusOne(x) ==
    1 + B2N(x.ext_qos # QoSDefault) + B2N(x.ext_tstamp.some)
      + B2N(x.ext_dst # DestinationDefault)
      + B2N(x.ext_target # TargetDefault)

\* n_exts of write: the extensions whose value is not the default.
CountExts(x) ==
    B2N(x.ext_qos # QoSDefault) + B2N(x.ext_tstamp.some)
        + B2N(x.ext_dst # DestinationDefault)
        + B2N(x.ext_target # TargetDefault)

\* WCodec<&Request>::write
WriteRequest(x, wrap) ==
    LET n0 == CountExts(x)
        header == REQUEST
                    + (IF n0 # 0 THEN FlagZ ELSE 0)
                    + (IF x.mapping # MappingDefault THEN FlagM ELSE 0)
                    + (IF HasSuffix(x.wire_expr) THEN FlagN ELSE 0)
        q  == x.ext_qos # QoSDefault
        n1 == n0 - B2N(q)
        t  == x.ext_tstamp.some
        n2 == n1 - B2N(t)
        d  == x.ext_dst # DestinationDefault
        n3 == n2 - B2N(d)
        g  == x.ext_target # TargetDefault
        n4 == n3 - B2N(g)
        tg == WriteTarget(x.ext_target, n4 # 0, wrap)
    IN  IF g /\ ~tg.ok THEN WriteFailed
        ELSE Wrote(
            <<header>>
            \o WriteZInt(x.id)
            \o WriteWireExpr(x.wire_expr)
            \o (IF q THEN WriteExt(QoSId, EncZ64, x.ext_qos, n1 # 0)
                ELSE <<>>)
            \o (IF t THEN WriteExt(TimestampId, EncZBuf, x.ext_tstamp.msg,
                                   n2 # 0)
                ELSE <<>>)
            \o (IF d THEN WriteDestination(x.ext_dst, n3 # 0) ELSE <<>>)
            \o (IF g THEN tg.bytes ELSE <<>>)
            \o WriteBuf(x.payload))

KnownIds == {QoSId, TimestampId, DestinationId, TargetId}

\* One turn of the loop of read after the extension header ext: the
\* fields acc with the extension's value assigned, or the unknown
\* extension skipped.
ReadExtensionBody(buf, ext, acc, complete_n) ==
    LET eid == iext_eid(ext)
        q   == ReadQoS(buf, ext)
        t   == ReadTimestamp(buf, ext)
        d   == ReadDestination(buf, ext)
        rt  == ReadTarget(buf, ext, complete_n)
        u   == ExtensionSkip(buf, ext)
    IN  IF eid = QoSId THEN
            IF ~q.ok THEN DidntRead
            ELSE Read([acc EXCEPT !.ext_qos = q.val], q.rest)
        ELSE IF eid = TimestampId THEN
            IF ~t.ok THEN DidntRead
            ELSE Read([acc EXCEPT !.ext_tstamp = Some(t.val)], t.rest)
        ELSE IF eid = DestinationId THEN
            IF ~d.ok THEN DidntRead
            ELSE Read([acc EXCEPT !.ext_dst = d.val], d.rest)
        ELSE IF eid = TargetId THEN
            IF ~rt.ok THEN DidntRead
            ELSE Read([acc EXCEPT !.ext_target = rt.val], rt.rest)
        ELSE IF ~u.ok THEN DidntRead
        ELSE Read(acc, u.rest)

\* No arm for an unknown id.
ReadExtensionStrict(buf, ext, acc, complete_n) ==
    IF iext_eid(ext) \notin KnownIds THEN DidntRead
    ELSE ReadExtensionBody(buf, ext, acc, complete_n)

\* A field assigned once keeps its value.
ReadExtensionFirstWins(buf, ext, acc, complete_n) ==
    LET r == ReadExtensionBody(buf, ext, acc, complete_n)
    IN  IF ~r.ok THEN r
        ELSE Read(
            [ext_qos    |-> IF acc.ext_qos # QoSDefault
                            THEN acc.ext_qos ELSE r.val.ext_qos,
             ext_tstamp |-> IF acc.ext_tstamp.some
                            THEN acc.ext_tstamp ELSE r.val.ext_tstamp,
             ext_dst    |-> IF acc.ext_dst # DestinationDefault
                            THEN acc.ext_dst ELSE r.val.ext_dst,
             ext_target |-> IF acc.ext_target # TargetDefault
                            THEN acc.ext_target ELSE r.val.ext_target],
            r.rest)

ReadExtension(buf, ext, acc, complete_n) ==
    ReadExtensionBody(buf, ext, acc, complete_n)

\* The loop of read: while has_ext, the next extension.
RECURSIVE ReadExts(_, _, _, _)
ReadExts(buf, acc, has_ext, complete_n) ==
    IF ~has_ext THEN Read(acc, buf)
    ELSE IF buf = <<>> THEN DidntRead
    ELSE LET ext == Head(buf)
             r   == ReadExtension(Tail(buf), ext, acc, complete_n)
         IN  IF ~r.ok THEN DidntRead
             ELSE ReadExts(r.rest, r.val, iext_more(ext), complete_n)

\* RCodec<Request>::read: the header byte, then the read of
\* Zenoh080Header.
ReadRequest(buf, complete_n) ==
    IF buf = <<>> THEN DidntRead
    ELSE
    LET header  == Head(buf)
        id      == ReadZInt(Tail(buf))
        we      == ReadWireExpr(id.rest, imsg_has_flag(header, FlagN))
        mapping == IF imsg_has_flag(header, FlagM)
                   THEN "Sender" ELSE "Receiver"
        exts    == ReadExts(we.rest, DefaultExts,
                            imsg_has_flag(header, FlagZ), complete_n)
        payload == ReadBuf(exts.rest)
    IN  IF imsg_mid(header) # REQUEST THEN DidntRead
        ELSE IF ~id.ok THEN DidntRead
        ELSE IF ~we.ok THEN DidntRead
        ELSE IF ~exts.ok THEN DidntRead
        ELSE IF ~payload.ok THEN DidntRead
        ELSE Read(Request(id.val, we.val, mapping, payload.val, exts.val),
                  payload.rest)

(***************************************************************************)
(* State                                                                   *)
(***************************************************************************)
VARIABLES
    config,     \* the transport's configuration: [pid, qos]
    callback,   \* whether the callback slot holds a handler
    lanes,      \* conduit_rx: per lane, [sn, defrag]
    mutex,      \* per lane, the link whose rx task holds the mutex, or "free"
    pc,         \* per link, where its rx task is: recv, lock, callback,
                \* returned, done
    cur,        \* per link, the receive_message call in progress
    links,      \* [rx_stop, tx_stop, tasks, open, alive]
    last,       \* the last receive_message call that returned
    strm,       \* per lane, the in-order stream of frames observed on it
    codec       \* a Request on its way through the codec: [build, phase,
                \* req, from, wire, chain, pos, res]

vars ==
    <<config, callback, lanes, mutex, pc, cur, links, last, strm, codec>>

InitLinks ==
    [rx_stop |-> [l \in Links |-> FALSE], tx_stop |-> [l \in Links |-> FALSE],
     tasks |-> [l \in Links |-> "none"], open |-> [l \in Links |-> TRUE],
     alive |-> TRUE]

NoCall == [msg |-> NoMsg, lane |-> NoLane, pre |-> [sn |-> 0, defrag |-> EmptyDefrag],
           accepted |-> FALSE, queue |-> <<>>, calls |-> <<>>, rets |-> <<>>,
           held |-> <<>>]

\* The last receive_message call that returned: the link it came from, the
\* message, the lane it reached with the lane's state before the call,
\* whether the sn was accepted, the messages the callback was handed with
\* what it returned and the locks the task held meanwhile (held: the
\* slot's read lock, the lanes' mutexes), how many frames the observer had
\* followed on the lane (run), the value returned and the links' state
\* before and after.
NoLast == [link |-> "none", msg |-> NoMsg, lane |-> NoLane,
           pre |-> [sn |-> 0, defrag |-> EmptyDefrag], accepted |-> FALSE,
           calls |-> <<>>, rets |-> <<>>, held |-> <<>>, run |-> 0,
           ret |-> "Ok",
           lpre |-> InitLinks, lpost |-> InitLinks]

NewStream == [on |-> TRUE, frames |-> <<>>, dl |-> <<>>]

\* The observer not following the lane.
NoStream == [NewStream EXCEPT !.on = FALSE]

\* The sns a lane may start from.
InitialSns == {Resolution - 1}

InitRx(qosSet, callbackSet) ==
    /\ config \in [pid : {"pidA"}, qos : qosSet]
    /\ callback \in callbackSet
    /\ \E sn0 \in InitialSns :
         lanes = [ln \in Lanes |-> [sn |-> sn0, defrag |-> EmptyDefrag]]
    /\ mutex = [ln \in Lanes |-> "free"]
    /\ pc = [l \in Links |-> "recv"]
    /\ cur = [l \in Links |-> NoCall]
    /\ links = InitLinks
    /\ last = NoLast
    /\ strm = [ln \in Lanes |-> NewStream]

\* No Request in the codec.
NoCodec ==
    [build |-> [complete_n |-> FALSE, wrap |-> FALSE],
     phase |-> "off",
     req   |-> Request(0, WireExpr(0, <<>>), MappingDefault, <<>>,
                       DefaultExts),
     from  |-> "none",
     wire  |-> <<>>,
     chain |-> <<>>,
     pos   |-> 0,
     res   |-> DidntRead]

InitWith(qosSet, callbackSet) ==
    /\ InitRx(qosSet, callbackSet)
    /\ codec = NoCodec

(***************************************************************************)
(* The observer of a lane: the frames handled on it since the lane was     *)
(* last left with an empty defragmenter by a frame that was not the        *)
(* successor of its sn, as long as they come with consecutive sns and the  *)
(* handler is set and returns Ok; dl is what the callback was handed       *)
(* meanwhile.                                                              *)
(***************************************************************************)
AllOk(rets) == \A i \in 1..Len(rets) : rets[i] = "Ok"

Observe(s, call, post) ==
    LET sn      == call.msg.sn
        inorder == sn = (call.pre.sn + 1) % Resolution
        cbok    == callback /\ AllOk(call.rets)
    IN  IF sn >= Resolution THEN NoStream
        ELSE IF inorder /\ cbok
        THEN IF s.on /\ Len(s.frames) < MaxStream
             THEN [s EXCEPT !.frames = Append(@, call.msg.payload),
                            !.dl = @ \o call.calls]
             ELSE NoStream
        ELSE IF DefragIsEmpty(post.defrag) THEN NewStream
        ELSE NoStream

(***************************************************************************)
(* receive_message returns to the rx task's loop: the call is recorded.    *)
(***************************************************************************)
Return(l, call, post, ret, lpre) ==
    /\ last' = [link |-> l, msg |-> call.msg, lane |-> call.lane,
                pre |-> call.pre, accepted |-> call.accepted,
                calls |-> call.calls, rets |-> call.rets, held |-> call.held,
                run |-> IF call.lane = NoLane \/ ~strm[call.lane].on THEN 0
                        ELSE Len(strm[call.lane].frames),
                ret |-> ret, lpre |-> lpre, lpost |-> links']
    /\ strm' = IF call.lane = NoLane THEN strm
               ELSE [strm EXCEPT ![call.lane] = Observe(@, call, post)]
    /\ pc' = [pc EXCEPT ![l] = "returned"]
    /\ cur' = [cur EXCEPT ![l] = NoCall]

(***************************************************************************)
(* handle_frame under the lane's guard, up to its first callback           *)
(***************************************************************************)
\* The lane's guard dropped before the callbacks.
LockedReleased(l, msg, lane) ==
    \E keep \in BOOLEAN :
        LET r    == HandleFrame(lanes[lane], msg.sn, msg.payload, keep)
            call == [NoCall EXCEPT !.msg = msg, !.lane = lane,
                                   !.pre = lanes[lane],
                                   !.accepted = r.accepted,
                                   !.queue = r.deliver]
        IN  /\ lanes' = [lanes EXCEPT ![lane] = r.lane]
            /\ UNCHANGED mutex
            /\ IF r.ret = "Deliver"
               THEN /\ pc' = [pc EXCEPT ![l] = "callback"]
                    /\ cur' = [cur EXCEPT ![l] = call]
                    /\ UNCHANGED <<last, strm>>
               ELSE Return(l, call, r.lane, r.ret, links)

Locked(l, msg, lane) ==
    \E keep \in BOOLEAN :
        LET r    == HandleFrame(lanes[lane], msg.sn, msg.payload, keep)
            call == [NoCall EXCEPT !.msg = msg, !.lane = lane,
                                   !.pre = lanes[lane],
                                   !.accepted = r.accepted,
                                   !.queue = r.deliver]
        IN  /\ lanes' = [lanes EXCEPT ![lane] = r.lane]
            /\ IF r.ret = "Deliver"
               THEN /\ mutex' = [mutex EXCEPT ![lane] = l]
                    /\ pc' = [pc EXCEPT ![l] = "callback"]
                    /\ cur' = [cur EXCEPT ![l] = call]
                    /\ UNCHANGED <<last, strm>>
               ELSE /\ Return(l, call, r.lane, r.ret, links)
                    /\ UNCHANGED mutex

(***************************************************************************)
(* receive_message: a Frame goes to its lane, whose mutex the rx task      *)
(* takes at once when it is free and waits for otherwise.                  *)
(***************************************************************************)
ReceiveMessage(l, msg) ==
    /\ pc[l] = "recv"
    /\ UNCHANGED codec
    /\ ~links.rx_stop[l]
    /\ \/ /\ msg.body = "Frame"
          /\ SelectConduit(config.qos, msg.priority) = -1
          /\ UNCHANGED <<config, callback, lanes, mutex, links>>
          /\ Return(l, [NoCall EXCEPT !.msg = msg], NoCall.pre, "Err", links)
       \/ /\ msg.body = "Frame"
          /\ SelectConduit(config.qos, msg.priority) # -1
          /\ UNCHANGED <<config, callback, links>>
          /\ LET lane == SelectLane(SelectConduit(config.qos, msg.priority),
                                    msg.reliability)
             IN  /\ msg.payload.kind = "Fragment"
                      => Len(lanes[lane].defrag.frags) < MaxFrags
                 /\ IF mutex[lane] = "free"
                    THEN Locked(l, msg, lane)
                    ELSE /\ pc' = [pc EXCEPT ![l] = "lock"]
                         /\ cur' = [cur EXCEPT ![l] =
                                [NoCall EXCEPT !.msg = msg, !.lane = lane]]
                         /\ UNCHANGED <<lanes, mutex, last, strm>>
       \/ /\ msg.body = "Close"
          /\ LET r == HandleClose(links, config.pid, l, msg.pid, msg.link_only)
             IN  /\ links' = r.st
                 /\ Return(l, [NoCall EXCEPT !.msg = msg], NoCall.pre, r.ret,
                           links)
          /\ UNCHANGED <<config, callback, lanes, mutex>>
       \/ /\ msg.body \in {"KeepAlive", "Other"}
          /\ UNCHANGED <<config, callback, lanes, mutex, links>>
          /\ Return(l, [NoCall EXCEPT !.msg = msg], NoCall.pre, "Ok", links)

\* The rx task waiting in zlock!(lane) gets the mutex.
LockLane(l) ==
    /\ pc[l] = "lock"
    /\ UNCHANGED codec
    /\ mutex[cur[l].lane] = "free"
    /\ UNCHANGED <<config, callback, links>>
    /\ Locked(l, cur[l].msg, cur[l].lane)

(***************************************************************************)
(* trigger_callback for the next message handle_frame delivers; the guard  *)
(* is dropped when handle_frame returns.                                   *)
(***************************************************************************)
\* The loop goes on after an error, to the end of the batch.
CallbackKeepGoing(l) ==
    /\ UNCHANGED codec
    /\ pc[l] = "callback"
    /\ UNCHANGED <<config, callback, lanes, links>>
    /\ \E cbret \in {"Ok", "Err"} :
         LET t    == TriggerCallback(callback, cbret)
             msg  == Head(cur[l].queue)
             call == [cur[l] EXCEPT
                         !.queue = Tail(@),
                         !.calls = IF t.invoked THEN Append(@, msg) ELSE @,
                         !.rets = IF t.invoked THEN Append(@, t.ret) ELSE @,
                         !.held = IF t.invoked
                                  THEN Append(@, [slot |-> t.slot_locked,
                                                  lanes |-> {ln \in Lanes :
                                                      mutex[ln] = l}])
                                  ELSE @]
         IN  IF call.queue = <<>>
             THEN /\ Return(l, call, lanes[cur[l].lane], t.ret, links)
                  /\ mutex' = [mutex EXCEPT ![cur[l].lane] = "free"]
             ELSE /\ cur' = [cur EXCEPT ![l] = call]
                  /\ UNCHANGED <<mutex, pc, last, strm>>

Callback(l) ==
    /\ pc[l] = "callback"
    /\ UNCHANGED codec
    /\ UNCHANGED <<config, callback, lanes, links>>
    /\ \E cbret \in {"Ok", "Err"} :
         LET t    == TriggerCallback(callback, cbret)
             msg  == Head(cur[l].queue)
             call == [cur[l] EXCEPT
                         !.queue = Tail(@),
                         !.calls = IF t.invoked THEN Append(@, msg) ELSE @,
                         !.rets = IF t.invoked THEN Append(@, t.ret) ELSE @,
                         !.held = IF t.invoked
                                  THEN Append(@, [slot |-> t.slot_locked,
                                                  lanes |-> {ln \in Lanes :
                                                      mutex[ln] = l}])
                                  ELSE @]
         IN  IF t.ret = "Err" \/ call.queue = <<>>
             THEN /\ Return(l, call, lanes[cur[l].lane], t.ret, links)
                  /\ mutex' = [mutex EXCEPT ![cur[l].lane] = "free"]
             ELSE /\ cur' = [cur EXCEPT ![l] = call]
                  /\ UNCHANGED <<mutex, pc, last, strm>>

(***************************************************************************)
(* The link's rx task and the spawned deletions                            *)
(***************************************************************************)
\* The rx task's loop goes on to read the next message.
Resume(l) ==
    /\ pc[l] = "returned"
    /\ UNCHANGED codec
    /\ ~links.rx_stop[l]
    /\ pc' = [pc EXCEPT ![l] = "recv"]
    /\ last' = IF last.link = l THEN NoLast ELSE last
    /\ UNCHANGED <<config, callback, lanes, mutex, cur, links, strm>>

\* The rx task of a link ends once it is told to stop.
RxExit(l) ==
    /\ pc[l] \in {"recv", "returned"}
    /\ UNCHANGED codec
    /\ links.rx_stop[l]
    /\ pc' = [pc EXCEPT ![l] = "done"]
    /\ UNCHANGED <<config, callback, lanes, mutex, cur, links, last, strm>>

\* del_link(link): closing the link joins its rx task.
DelLink(l) ==
    /\ links.tasks[l] = "del_link"
    /\ UNCHANGED codec
    /\ pc[l] = "done"
    /\ links' = [links EXCEPT !.tasks[l] = "done", !.open[l] = FALSE]
    /\ UNCHANGED <<config, callback, lanes, mutex, pc, cur, last, strm>>

\* delete(): stops every link ...
DeleteStop(l) ==
    /\ links.tasks[l] = "delete"
    /\ UNCHANGED codec
    /\ links' = [links EXCEPT !.tasks[l] = "deleting",
                              !.rx_stop = [k \in Links |-> TRUE],
                              !.tx_stop = [k \in Links |-> TRUE]]
    /\ UNCHANGED <<config, callback, lanes, mutex, pc, cur, last, strm>>

\* ... and closes them, joining their rx tasks.
DeleteJoin(l) ==
    /\ links.tasks[l] = "deleting"
    /\ UNCHANGED codec
    /\ \A k \in Links : pc[k] = "done"
    /\ links' = [links EXCEPT !.tasks[l] = "done",
                              !.open = [k \in Links |-> FALSE],
                              !.alive = FALSE]
    /\ UNCHANGED <<config, callback, lanes, mutex, pc, cur, last, strm>>

(***************************************************************************)
(* Inputs                                                                  *)
(***************************************************************************)
MsgA == <<0>>

MsgB == <<1>>

Batches == {<<>>, <<MsgA, MsgB>>}

Payloads ==
    {Fragment(<<b>>, f) : b \in Bytes, f \in BOOLEAN}
        \cup {Messages(ms) : ms \in Batches}

Closes == {Close(pid, lo) : pid \in PeerIds \cup {NoPid}, lo \in BOOLEAN}

\* The sns a peer sends next to a lane at sn: the same again, the next,
\* one after a gap, the last of the forward window and the first beyond it.
SnsAfter(sn) ==
    {(sn + d) % Resolution : d \in {0, 1, 2, SemiInt - 1, SemiInt}}

\* One link reading one lane.
Inputs ==
    {Frame(DefaultPriority, "Reliable", sn, p) :
        sn \in SnsAfter(lanes[<<0, "Reliable">>].sn), p \in Payloads}
        \cup {Frame(DefaultPriority, "Reliable", Resolution,
                     Messages(<<MsgA>>)),
              Frame("Control", "Reliable", 0, Messages(<<MsgA>>))}
        \cup {Close("pidB", lo) : lo \in BOOLEAN} \cup {KeepAlive, Other}

Init == InitWith({FALSE}, BOOLEAN)

Next ==
    \/ \E m \in Inputs : ReceiveMessage("l1", m)
    \/ \E l \in Links : Callback(l)
    \/ \E l \in Links : Resume(l)

Spec == Init /\ [][Next]_vars

\* Two links reading one lane, with Close messages from either peer id and
\* the deletions they spawn.
InputsClose ==
    Closes
        \cup {Frame(DefaultPriority, "Reliable",
                     (lanes[<<0, "Reliable">>].sn + 1) % Resolution,
                     Messages(<<MsgA>>)),
               KeepAlive}

InitClose == InitWith({FALSE}, {TRUE})

NextClose ==
    \/ \E l \in Links : \E m \in InputsClose : ReceiveMessage(l, m)
    \/ \E l \in Links : LockLane(l)
    \/ \E l \in Links : Callback(l)
    \/ \E l \in Links : Resume(l)
    \/ \E l \in Links : RxExit(l)
    \/ \E l \in Links : DelLink(l)
    \/ \E l \in Links : DeleteStop(l)
    \/ \E l \in Links : DeleteJoin(l)

SpecClose == InitClose /\ [][NextClose]_vars

\* Two links reading one lane: batches and one-fragment messages with the
\* next sn, and the lane's sn again.
InputsPair ==
    {Frame(DefaultPriority, "Reliable",
           (lanes[<<0, "Reliable">>].sn + 1) % Resolution, p) :
        p \in {Messages(<<MsgA, MsgB>>), Fragment(<<1>>, TRUE)}}
        \cup {Frame(DefaultPriority, "Reliable", lanes[<<0, "Reliable">>].sn,
                     Messages(<<MsgB>>))}

InitPair == InitWith({FALSE}, {TRUE})

NextPair ==
    \/ \E l \in Links : \E m \in InputsPair : ReceiveMessage(l, m)
    \/ \E l \in Links : LockLane(l)
    \/ \E l \in Links : Callback(l)
    \/ \E l \in Links : Resume(l)

SpecPair == InitPair /\ [][NextPair]_vars

\* Two links reading three lanes of a transport with QoS: the reliable and
\* the best-effort lane of one conduit and the reliable lane of another.
\* Either link sends any lane its next sn, with a one-message batch on the
\* default priority and a fragment on the other, until the lane's sn is
\* MaxLaneFrames past where it started.
Channels ==
    {<<DefaultPriority, "Reliable">>, <<DefaultPriority, "BestEffort">>,
     <<"Control", "Reliable">>}

InputsLanes ==
    {Frame(ch[1], ch[2],
           (lanes[<<PriorityIndex(ch[1]), ch[2]>>].sn + 1) % Resolution,
           IF ch[1] = DefaultPriority THEN Messages(<<MsgA>>)
           ELSE Fragment(<<1>>, FALSE)) :
        ch \in {c \in Channels :
                   (lanes[<<PriorityIndex(c[1]), c[2]>>].sn + 1) % Resolution
                       < MaxLaneFrames}}

InitLanes == InitWith({TRUE}, {TRUE})

NextLanes ==
    \/ \E l \in Links : \E m \in InputsLanes : ReceiveMessage(l, m)
    \/ \E l \in Links : LockLane(l)
    \/ \E l \in Links : Callback(l)
    \/ \E l \in Links : Resume(l)

SpecLanes == InitLanes /\ [][NextLanes]_vars

(***************************************************************************)
(* The Request codec: a Request is written by the encoder, or its body by  *)
(* a peer with an extension chain of the peer's choice; the bytes may get  *)
(* an unknown extension on their way; the decoder reads them.              *)
(***************************************************************************)
\* A build has the feature complete_n or not, and its integer overflow
\* wraps or stops the program.
Builds == [complete_n : BOOLEAN, wrap : BOOLEAN]

Targets(complete_n) ==
    {BestMatching, All, AllComplete}
        \cup (IF complete_n
              THEN {Complete(n) : n \in {0, 5, 2 ^ ZIntBits - 4,
                                         2 ^ ZIntBits - 3, 2 ^ ZIntBits - 1}}
              ELSE {})

Requests(complete_n) ==
    {Request(id, we, mapping, payload, exts) :
        id \in {0, 200},
        we \in {WireExpr(0, <<>>), WireExpr(3, <<7>>)},
        mapping \in {"Receiver", "Sender"},
        payload \in {<<>>, <<6>>},
        exts \in [ext_qos    : {QoSDefault, 5},
                  ext_tstamp : {None, Some(<<9>>)},
                  ext_dst    : {"Queryables", "Subscribers"},
                  ext_target : Targets(complete_n)]}

\* An extension on the wire: its body is the number z when ENC is Z64 and
\* the bytes b when it is ZBuf.
Ext(id, enc, z, b) == [id |-> id, enc |-> enc, z |-> z, b |-> b]

\* The known extensions a peer may chain, and the unknown ones.
KnownExts ==
    {Ext(QoSId, EncZ64, 5, <<>>), Ext(QoSId, EncZ64, 6, <<>>),
     Ext(TimestampId, EncZBuf, 0, <<9>>), Ext(DestinationId, EncUnit, 0, <<>>),
     Ext(TargetId, EncZ64, 1, <<>>), Ext(TargetId, EncZ64, 8, <<>>)}

UnknownIds == {5, 31}

UnknownExts ==
    {Ext(id, enc, IF enc = EncZ64 THEN 200 ELSE 0,
         IF enc = EncZBuf THEN <<1, 2>> ELSE <<>>) :
        id \in UnknownIds,
        enc \in {EncUnit, EncZ64, EncZBuf, EncReserved}}

Chains == UNION {[1..n -> KnownExts] : n \in 0..MaxExts}

\* The bytes of a chain: every extension but the last says more.
ChainBytes(chain) ==
    Concat([i \in 1..Len(chain) |->
                WriteExt(chain[i].id, chain[i].enc,
                         IF chain[i].enc = EncZBuf
                         THEN chain[i].b ELSE chain[i].z,
                         i < Len(chain))])

\* The bytes of a Request's header and body with the chain and the
\* payload: Z is set iff the chain has an extension.
Serialise(flags, body, chain, payload) ==
    <<REQUEST + flags + (IF chain # <<>> THEN FlagZ ELSE 0)>>
        \o body \o ChainBytes(chain) \o payload

\* The chain of buf, walked by the more bits: [ok, val, rest] with val
\* the extensions.
RECURSIVE WalkChain(_, _, _)
WalkChain(buf, has_ext, acc) ==
    IF ~has_ext THEN Read(acc, buf)
    ELSE IF buf = <<>> THEN DidntRead
    ELSE LET ext == Head(buf)
             b   == ReadExtBody(Tail(buf), ext)
         IN  IF ~b.ok THEN DidntRead
             ELSE WalkChain(b.rest,
                            iext_more(ext),
                            Append(acc,
                                   Ext(iext_eid(ext), iext_enc(ext),
                                       IF iext_enc(ext) = EncZ64
                                       THEN b.val ELSE 0,
                                       IF iext_enc(ext) = EncZBuf
                                       THEN b.val ELSE <<>>)))

\* The parts of the bytes of a Request: the flags M and N, the body, the
\* chain and the payload's bytes.
Parts(wire) ==
    LET header == Head(wire)
        id     == ReadZInt(Tail(wire))
        we     == ReadWireExpr(id.rest, imsg_has_flag(header, FlagN))
        chain  == WalkChain(we.rest, imsg_has_flag(header, FlagZ), <<>>)
        nbody  == Len(wire) - 1 - Len(we.rest)
    IN  [ok      |-> id.ok /\ we.ok /\ chain.ok,
         z       |-> imsg_has_flag(header, FlagZ),
         flags   |-> (IF imsg_has_flag(header, FlagM) THEN FlagM ELSE 0)
                        + (IF imsg_has_flag(header, FlagN) THEN FlagN ELSE 0),
         body    |-> SubSeq(wire, 2, 1 + nbody),
         chain   |-> chain.val,
         payload |-> chain.rest]

InsertAt(s, p, e) == SubSeq(s, 1, p) \o <<e>> \o SubSeq(s, p + 1, Len(s))

\* The encoder writes the Request.
Encode ==
    /\ codec.phase = "idle"
    /\ LET w == WriteRequest(codec.req, codec.build.wrap)
       IN  codec' = IF w.ok
                    THEN [codec EXCEPT !.phase = "written",
                                       !.from = "encoder",
                                       !.wire = w.bytes]
                    ELSE [codec EXCEPT !.phase = "failed"]
    /\ UNCHANGED <<config, callback, lanes, mutex, pc, cur, links, last, strm>>

\* A peer writes the body of the Request with a chain of known
\* extensions in the order and the number it likes.
PeerEncode ==
    /\ codec.phase = "idle"
    /\ codec.req = [codec.req EXCEPT !.ext_qos = QoSDefault,
                                     !.ext_tstamp = None,
                                     !.ext_dst = DestinationDefault,
                                     !.ext_target = TargetDefault]
    /\ LET w == WriteRequest(codec.req, codec.build.wrap).bytes
           p == Parts(w)
       IN  \E chain \in Chains :
             codec' = [codec EXCEPT
                          !.phase = "written",
                          !.from = "peer",
                          !.chain = chain,
                          !.wire = Serialise(p.flags, p.body, chain,
                                             p.payload)]
    /\ UNCHANGED <<config, callback, lanes, mutex, pc, cur, links, last, strm>>

\* The written Request gets an extension e of an unknown id at a position
\* pos of its chain.
InsertUnknown ==
    /\ codec.phase = "written"
    /\ codec.from = "encoder"
    /\ LET p == Parts(codec.wire)
       IN  /\ p.ok
           /\ \E pos \in 0..Len(p.chain) : \E e \in UnknownExts :
                codec' = [codec EXCEPT
                             !.from = "inserted",
                             !.chain = <<e>>,
                             !.pos = pos,
                             !.wire = Serialise(p.flags, p.body,
                                                InsertAt(p.chain, pos, e),
                                                p.payload)]
    /\ UNCHANGED <<config, callback, lanes, mutex, pc, cur, links, last, strm>>

\* The decoder reads the bytes.
Decode ==
    /\ codec.phase = "written"
    /\ codec' = [codec EXCEPT
                    !.phase = "read",
                    !.res = ReadRequest(codec.wire, codec.build.complete_n)]
    /\ UNCHANGED <<config, callback, lanes, mutex, pc, cur, links, last, strm>>

InitCodec ==
    /\ InitRx({FALSE}, {TRUE})
    /\ \E b \in Builds : \E r \in Requests(b.complete_n) :
         codec = [NoCodec EXCEPT !.build = b, !.phase = "idle", !.req = r]

NextCodec ==
    \/ Encode
    \/ PeerEncode
    \/ InsertUnknown
    \/ Decode

SpecCodec == InitCodec /\ [][NextCodec]_vars

(***************************************************************************)
(* Properties of the frame path                                            *)
(***************************************************************************)
\* How many values follow the current one in the forward window.
Window == 2 ^ (SnBits - 1) - 1

\* n is one of the Window values that follow c modulo the resolution.
After(c, n) == \E d \in 1..Window : n = (c + d) % Resolution

\* The last call that returned was a Frame that reached its lane.
ToLane == last.msg.body = "Frame" /\ last.lane # NoLane

\* The last call's frame was dropped without an error.
DroppedLast ==
    /\ ~last.accepted
    /\ last.calls = <<>>
    /\ last.ret = "Ok"
    /\ DefragIsEmpty(lanes[last.lane].defrag)

\* The messages a stream of frames carries, in frame order: those of each
\* batch and the one each complete fragment run reassembles to; open holds
\* the buffers of the run in progress.
RECURSIVE Expected(_, _)
Expected(frames, open) ==
    IF frames = <<>> THEN <<>>
    ELSE LET p == Head(frames)
         IN  IF p.kind = "Messages"
             THEN p.messages \o Expected(Tail(frames), open)
             ELSE IF p.is_final
             THEN <<Parse(Concat(Append(open, p.buffer))).msg>>
                      \o Expected(Tail(frames), <<>>)
             ELSE Expected(Tail(frames), Append(open, p.buffer))

\* The stream is made of batches and fragment runs that reassemble to a
\* message, no batch inside a run.
RECURSIVE WellFormed(_, _)
WellFormed(frames, open) ==
    IF frames = <<>> THEN TRUE
    ELSE LET p == Head(frames)
         IN  IF p.kind = "Messages"
             THEN open = <<>> /\ WellFormed(Tail(frames), <<>>)
             ELSE IF p.is_final
             THEN /\ Parse(Concat(Append(open, p.buffer))).some
                  /\ WellFormed(Tail(frames), <<>>)
             ELSE WellFormed(Tail(frames), Append(open, p.buffer))

\* C1 as stated, for a stream of one frame: on a lane at sn s-1 whose
\* handler is set and returns Ok, a frame with sn s that is a batch or a
\* complete fragment run hands the callback exactly the messages it carries.
C1_AnyLaneState ==
    (/\ ToLane
     /\ callback
     /\ AllOk(last.rets)
     /\ last.msg.sn = (last.pre.sn + 1) % Resolution
     /\ WellFormed(<<last.msg.payload>>, <<>>))
        => last.calls = Expected(<<last.msg.payload>>, <<>>)

\* C1 amended: on a lane at sn s-1 whose defragmenter is empty and whose
\* handler is set and returns Ok, after the frames s, s+1, ..., s+k (batches
\* and complete fragment runs) the callback has been handed every message
\* they carry exactly once, in frame order.
C1_InOrderDelivery ==
    \A ln \in Lanes :
        (strm[ln].on /\ WellFormed(strm[ln].frames, <<>>))
            => strm[ln].dl = Expected(strm[ln].frames, <<>>)

C1_Witness ==
    \E ln \in Lanes :
        /\ strm[ln].on
        /\ Len(strm[ln].frames) = 2
        /\ strm[ln].frames[1] = Fragment(<<1>>, FALSE)
        /\ strm[ln].frames[2].kind = "Fragment"
        /\ strm[ln].frames[2].is_final
        /\ Len(strm[ln].dl) = 1

C4_OnePerRun ==
    (ToLane /\ last.msg.payload.kind = "Fragment")
        => IF ~last.msg.payload.is_final
           THEN last.calls = <<>>
           ELSE LET m == Parse(Concat(Append(DefragBufs(last.pre.defrag),
                                             last.msg.payload.buffer)))
                IN  (/\ last.accepted
                     /\ callback
                     /\ m.some
                     /\ \/ DefragIsEmpty(last.pre.defrag)
                        \/ last.msg.sn = last.pre.defrag.expected)
                        => /\ last.calls = <<m.msg>>
                           /\ DefragIsEmpty(lanes[last.lane].defrag)

C4_Witness ==
    /\ ToLane
    /\ last.msg.payload.kind = "Fragment"
    /\ last.msg.payload.is_final
    /\ Len(last.pre.defrag.frags) >= 1
    /\ last.msg.sn = last.pre.defrag.expected
    /\ Len(last.calls) = 1
    /\ DefragIsEmpty(lanes[last.lane].defrag)

\* C5: in every state the fragments a defragmenter holds carry the sns
\* sync, sync+1, ..., sync+k, none missing.
C5_ContiguousRun ==
    \A ln \in Lanes :
        \A i \in 1..Len(lanes[ln].defrag.frags) :
            lanes[ln].defrag.frags[i].sn
                = (lanes[ln].defrag.sync + i - 1) % Resolution

C5_Witness ==
    \E ln \in Lanes :
        /\ Len(lanes[ln].defrag.frags) >= 2
        /\ lanes[ln].sn # lanes[ln].defrag.frags[2].sn

\* C6 as stated: a fragment whose sn is not the one a non-empty
\* defragmenter expects returns an error and leaves the defragmenter empty.
C6_UnexpectedErr ==
    (/\ ToLane
     /\ last.msg.payload.kind = "Fragment"
     /\ ~DefragIsEmpty(last.pre.defrag)
     /\ last.msg.sn # last.pre.defrag.expected)
        => /\ last.ret = "Err"
           /\ DefragIsEmpty(lanes[last.lane].defrag)

\* C6 amended: a fragment whose sn comes after the lane's within the
\* forward window and is not the one a non-empty defragmenter expects
\* returns an error and leaves the defragmenter empty.
C6_AcceptedUnexpectedErr ==
    (/\ ToLane
     /\ last.msg.payload.kind = "Fragment"
     /\ ~DefragIsEmpty(last.pre.defrag)
     /\ last.msg.sn # last.pre.defrag.expected
     /\ After(last.pre.sn, last.msg.sn))
        => /\ last.ret = "Err"
           /\ DefragIsEmpty(lanes[last.lane].defrag)

C6_Witness ==
    /\ ToLane
    /\ last.msg.payload.kind = "Fragment"
    /\ ~last.msg.payload.is_final
    /\ ~DefragIsEmpty(last.pre.defrag)
    /\ last.msg.sn # last.pre.defrag.expected
    /\ After(last.pre.sn, last.msg.sn)
    /\ last.ret = "Err"

\* A step in which link l's receive_message returns.
Returns(l) == pc[l] # "returned" /\ pc'[l] = "returned" /\ last'.link = l

\* A step in which link l's handle_frame, on lane ln, goes on to (l is at
\* its first callback) or returns from a frame with sn.
FrameStep(l, ln, sn) ==
    \/ /\ pc[l] # "callback" /\ pc'[l] = "callback"
       /\ cur'[l].lane = ln /\ cur'[l].msg.sn = sn
    \/ /\ pc[l] # "callback" /\ Returns(l)
       /\ last'.msg.body = "Frame" /\ last'.lane = ln /\ last'.msg.sn = sn

\* C7: a lane's sn changes only in a step of handle_frame for a frame, on
\* that lane, whose sn comes after the lane's within the forward window,
\* and then to that sn; a call that returns without the sn accepted (a
\* frame that does not precede, a Close, a KeepAlive, any other message)
\* leaves every lane's sn as it was.
C7_SnMonotonic ==
    [][/\ \A ln \in Lanes :
             lanes'[ln].sn # lanes[ln].sn
                 => /\ After(lanes[ln].sn, lanes'[ln].sn)
                    /\ \E l \in Links : FrameStep(l, ln, lanes'[ln].sn)
       /\ \A l \in Links :
             (Returns(l) /\ pc[l] # "callback" /\ ~last'.accepted)
                 => \A ln \in Lanes : lanes'[ln].sn = lanes[ln].sn
      ]_vars

C7_Witness ==
    /\ ToLane
    /\ last.accepted
    /\ last.msg.sn = (last.pre.sn + 2) % Resolution
    /\ last.msg.sn < last.pre.sn
    /\ lanes[last.lane].sn = last.msg.sn

Stale(msg) == msg.body = "Close" /\ msg.pid # NoPid /\ msg.pid # config.pid

\* C9: a Close with a peer id that differs from the transport's changes
\* nothing: Ok is returned, no rx or tx task is stopped, no task is
\* spawned, and the links and the transport stay as open as they were.
C9_StaleCloseIgnored ==
    Stale(last.msg) => (last.ret = "Ok" /\ last.lpost = last.lpre)

C9_Witness ==
    /\ Stale(last.msg)
    /\ last.lpre.alive
    /\ last.lpre.open[last.link]
    /\ \E k \in Links : last.lpre.tasks[k] # "none"
    /\ last.lpost.tasks[last.link] = "none"
    /\ ~last.lpost.rx_stop[last.link]

\* C10: the receive_message call of an accepted Close (no peer id, or the
\* transport's) returns Ok having stopped the link's rx and tx tasks and
\* spawned del_link (link_only) or delete, with every link and the
\* transport as open as before, and its rx task free to end; a link or the
\* transport is closed only by a step of a spawned deletion, in which no rx
\* task moves.
C10_DeletionSpawned ==
    [][/\ \A l \in Links :
             (/\ Returns(l)
              /\ last'.msg.body = "Close"
              /\ ~Stale(last'.msg))
                 => /\ last'.ret = "Ok"
                    /\ links'.tasks[l] = IF last'.msg.link_only
                                         THEN "del_link" ELSE "delete"
                    /\ links'.rx_stop[l] /\ links'.tx_stop[l]
                    /\ links'.open = links.open
                    /\ links'.alive = links.alive
       /\ (links'.open # links.open \/ links'.alive # links.alive)
             => /\ pc' = pc
                /\ \E l \in Links :
                      /\ links.tasks[l] \in {"del_link", "deleting"}
                      /\ links'.tasks[l] = "done"
      ]_vars

C10_Witness ==
    /\ last.msg.body = "Close"
    /\ last.msg.pid = config.pid
    /\ last.msg.link_only
    /\ last.lpost.open[last.link]
    /\ pc[last.link] = "done"
    /\ links.tasks[last.link] = "done"
    /\ ~links.open[last.link]
    /\ links.alive

(***************************************************************************)
(* Properties of the callback's invocation                                 *)
(***************************************************************************)
\* C11 as stated: while handle_message runs the invoking task holds no
\* lock, neither the slot's read lock nor a lane's mutex (of every
\* invocation of the calls in progress and of the last call that returned).
C11_NoLockHeld ==
    /\ \A l \in Links : \A i \in 1..Len(cur[l].held) :
          ~cur[l].held[i].slot /\ cur[l].held[i].lanes = {}
    /\ \A i \in 1..Len(last.held) :
          ~last.held[i].slot /\ last.held[i].lanes = {}

\* C11 amended: while handle_message runs the invoking task does not hold
\* the slot's read lock; of the lanes' mutexes it holds exactly the one of
\* the lane the frame came on, whose guard handle_frame owns until it
\* returns.
C11_OnlyLaneMutexHeld ==
    /\ \A l \in Links : \A i \in 1..Len(cur[l].held) :
          ~cur[l].held[i].slot /\ cur[l].held[i].lanes = {cur[l].lane}
    /\ \A i \in 1..Len(last.held) :
          ~last.held[i].slot /\ last.held[i].lanes = {last.lane}

C11_Witness ==
    /\ ToLane
    /\ Len(last.held) = 2
    /\ last.held[2].lanes = {last.lane}
    /\ mutex[last.lane] = "free"

(***************************************************************************)
(* Properties of the errors receive_message returns                        *)
(***************************************************************************)
\* C12: a final fragment that completes a run (it starts the run or carries
\* the sn the defragmenter expects) whose concatenated buffers do not parse
\* makes receive_message return an error, the callback not invoked.
C12_DefragmentationFailure ==
    (/\ ToLane
     /\ last.msg.payload.kind = "Fragment"
     /\ last.msg.payload.is_final
     /\ last.accepted
     /\ \/ DefragIsEmpty(last.pre.defrag)
        \/ last.msg.sn = last.pre.defrag.expected
     /\ ~Parse(Concat(Append(DefragBufs(last.pre.defrag),
                             last.msg.payload.buffer))).some)
        => (last.ret = "Err" /\ last.calls = <<>>)

C12_Witness ==
    /\ ToLane
    /\ callback
    /\ last.msg.payload.kind = "Fragment"
    /\ last.msg.payload.is_final
    /\ Len(last.pre.defrag.frags) >= 1
    /\ last.msg.sn = last.pre.defrag.expected
    /\ last.pre.defrag.frags[1].buf = <<0>>
    /\ last.ret = "Err"
    /\ last.calls = <<>>

\* C13: without QoS a Frame with a priority other than the default makes
\* receive_message return an error at once: the call never waits for or
\* holds a lane's mutex, no lane's sn or defragmenter changes and the
\* callback is not invoked.
C13_UnknownConduit ==
    [][\A l \in Links :
          (/\ Returns(l)
           /\ last'.msg.body = "Frame"
           /\ ~config.qos
           /\ last'.msg.priority # DefaultPriority)
              => /\ last'.ret = "Err"
                 /\ pc[l] = "recv"
                 /\ last'.lane = NoLane
                 /\ mutex' = mutex
                 /\ lanes' = lanes
                 /\ last'.calls = <<>>
      ]_vars

C13_Witness ==
    /\ last.msg.body = "Frame"
    /\ ~config.qos
    /\ last.msg.priority = "Control"
    /\ last.ret = "Err"
    /\ last.lane = NoLane
    /\ \E ln \in Lanes : ~DefragIsEmpty(lanes[ln].defrag)

\* C20: after a frame whose sn comes after the lane's within the forward
\* window the lane's sn is that sn, whatever receive_message returned (Ok,
\* or the error of a failed push, of a failed defragmentation or of the
\* handler), and the same sn sent again is dropped as not preceding.
C20_SnKeptOnError ==
    (/\ ToLane
     /\ last.msg.sn < Resolution
     /\ After(last.pre.sn, last.msg.sn))
        => /\ lanes[last.lane].sn = last.msg.sn
           /\ \A keep \in BOOLEAN :
                 LET again == HandleFrame(lanes[last.lane], last.msg.sn,
                                          last.msg.payload, keep)
                 IN  /\ ~again.accepted
                     /\ again.ret = "Ok"
                     /\ again.deliver = <<>>
                     /\ again.lane.sn = last.msg.sn

C20_Witness ==
    /\ ToLane
    /\ After(last.pre.sn, last.msg.sn)
    /\ last.msg.payload.kind = "Fragment"
    /\ ~DefragIsEmpty(last.pre.defrag)
    /\ last.msg.sn # last.pre.defrag.expected
    /\ last.ret = "Err"
    /\ lanes[last.lane].sn = last.msg.sn

(***************************************************************************)
(* Properties of a batch's delivery                                        *)
(***************************************************************************)
\* A step in which link l's task invokes the handler.
Invokes(l) ==
    /\ pc[l] = "callback"
    /\ \/ pc'[l] = "callback" /\ Len(cur'[l].calls) > Len(cur[l].calls)
       \/ Returns(l) /\ Len(last'.calls) > Len(cur[l].calls)

\* C18: the callback is handed the messages of an accepted batch one by
\* one in the order of the list, all of them unless the handler returns an
\* error; and while a frame's messages are being delivered no message of
\* another frame of the same lane is.
C18_BatchOrder ==
    [][\A l \in Links :
          /\ (/\ Returns(l)
              /\ last'.msg.body = "Frame"
              /\ last'.lane # NoLane
              /\ last'.accepted
              /\ last'.msg.payload.kind = "Messages"
              /\ callback)
                 => /\ Len(last'.calls) <= Len(last'.msg.payload.messages)
                    /\ last'.calls = SubSeq(last'.msg.payload.messages, 1,
                                            Len(last'.calls))
                    /\ last'.ret = "Ok"
                          => last'.calls = last'.msg.payload.messages
          /\ Invokes(l)
                 => \A k \in Links \ {l} :
                       ~(pc[k] = "callback" /\ cur[k].lane = cur[l].lane)
      ]_vars

C18_Witness ==
    /\ ToLane
    /\ last.accepted
    /\ last.calls = <<MsgA, MsgB>>
    /\ \E k \in Links \ {last.link} :
          /\ pc[k] = "lock"
          /\ cur[k].lane = last.lane
          /\ cur[k].msg.payload.kind = "Messages"

(***************************************************************************)
(* The Request codec                                                       *)
(***************************************************************************)
\* The chain of the bytes in the codec.
WireChain == Parts(codec.wire).chain

\* The values of the Target extensions of a chain, in its order.
TargetVals(chain) ==
    LET ts == SelectSeq(chain, LAMBDA e : e.id = TargetId)
    IN  [i \in 1..Len(ts) |-> ts[i].z]

\* The packing of Target: 0, 1, 2, then 3 + n for Complete(n).
Packed(v) ==
    IF v = 0 THEN BestMatching
    ELSE IF v = 1 THEN All
    ELSE IF v = 2 THEN AllComplete
    ELSE Complete(v - 3)

\* The decoder has read bytes that nothing was inserted into.
ReadPlain == codec.phase = "read" /\ codec.from \in {"encoder", "peer"}

\* The encoder has written the Request in the codec.
Encoded == codec.phase \in {"written", "read"} /\ codec.from = "encoder"

\* C19 as stated: in every build, a Target extension of value v is read as
\* BestMatching, All, AllComplete for 0, 1, 2 and as Complete(v - 3) for
\* every v >= 3, and the encoder writes every Complete(n) as 3 + n.
C19_AnyBuild ==
    /\ (ReadPlain /\ TargetVals(WireChain) # <<>>)
          => /\ codec.res.ok
             /\ codec.res.val.ext_target
                   = Packed(TargetVals(WireChain)[Len(TargetVals(WireChain))])
    /\ (codec.phase # "idle" /\ codec.from \in {"none", "encoder"}
          /\ codec.req.ext_target.t = "Complete")
          => /\ Encoded
             /\ TargetVals(WireChain) = <<3 + codec.req.ext_target.n>>

\* C19: a Target extension of value 0, 1, 2 is read as BestMatching, All,
\* AllComplete; one of value v >= 3 is read as Complete(v - 3) by a build
\* with the feature complete_n and makes the read fail in a build without
\* it. The encoder writes All as 1, AllComplete as 2 and Complete(n) as
\* 3 + n while 3 + n fits a ZInt, so Complete(5) is written as 8 and read
\* back as Complete(5); beyond, the sum wraps or the writer stops,
\* as the build has it.
C19_TargetPacking ==
    /\ (ReadPlain /\ TargetVals(WireChain) # <<>>)
          => LET ts == TargetVals(WireChain)
             IN  IF ~codec.build.complete_n
                    /\ \E i \in 1..Len(ts) : ts[i] >= 3
                 THEN ~codec.res.ok
                 ELSE /\ codec.res.ok
                      /\ codec.res.val.ext_target = Packed(ts[Len(ts)])
    /\ (codec.phase # "idle" /\ codec.from \in {"none", "encoder"}
          /\ codec.req.ext_target # BestMatching)
          => LET rt == codec.req.ext_target
             IN  IF rt.t = "Complete" /\ 3 + rt.n \notin ZInts
                 THEN IF codec.build.wrap
                      THEN /\ Encoded
                           /\ TargetVals(WireChain)
                                 = <<(3 + rt.n) % 2 ^ ZIntBits>>
                      ELSE codec.phase = "failed"
                 ELSE /\ Encoded
                      /\ TargetVals(WireChain)
                            = <<IF rt.t = "All" THEN 1
                                ELSE IF rt.t = "AllComplete" THEN 2
                                ELSE 3 + rt.n>>
                      /\ codec.phase = "read"
                            => /\ codec.res.ok
                               /\ codec.res.val.ext_target = rt

C19_Witness ==
    /\ ReadPlain
    /\ codec.from = "encoder"
    /\ codec.req.ext_target = Complete(5)
    /\ TargetVals(WireChain) = <<8>>
    /\ codec.res.ok
    /\ codec.res.val.ext_target = Complete(5)

\* C14: for every Request, the bytes the encoder writes are read back by
\* the decoder as a Request equal to it, and the decoder consumes exactly
\* those bytes.
C14_RoundTrip ==
    (codec.phase # "idle" /\ codec.from \in {"none", "encoder"})
        => /\ codec.phase # "failed"
           /\ codec.phase = "read"
                 => /\ codec.res.ok
                    /\ codec.res.val = codec.req
                    /\ codec.res.rest = <<>>

\* The ids of the extensions of a Request whose value is not the default,
\* in the canonical order.
NonDefaultIds(x) ==
    (IF x.ext_qos # QoSDefault THEN <<QoSId>> ELSE <<>>)
        \o (IF x.ext_tstamp.some THEN <<TimestampId>> ELSE <<>>)
        \o (IF x.ext_dst # DestinationDefault THEN <<DestinationId>> ELSE <<>>)
        \o (IF x.ext_target # TargetDefault THEN <<TargetId>> ELSE <<>>)

\* C16: the bytes the encoder writes for a Request hold exactly the
\* extensions whose value is not the default, in the order QoS, Timestamp,
\* Destination, Target, with their values; the header's Z flag is set iff
\* there is one; every extension but the last has its more bit set and the
\* last has not, so that following the more bits ends at the payload; and
\* with Z clear the decoder reads no extension.
C16_CanonicalChain ==
    Encoded
        => LET p == Parts(codec.wire)
               x == codec.req
           IN  /\ p.ok
               /\ [i \in 1..Len(p.chain) |-> p.chain[i].id] = NonDefaultIds(x)
               /\ \A i \in 1..Len(p.chain) :
                     LET e == p.chain[i]
                     IN  /\ e.id = QoSId
                            => e.enc = EncZ64 /\ e.z = x.ext_qos
                         /\ e.id = TimestampId
                            => e.enc = EncZBuf /\ e.b = x.ext_tstamp.msg
                         /\ e.id = DestinationId => e.enc = EncUnit
                         /\ e.id = TargetId => e.enc = EncZ64
               /\ p.z <=> p.chain # <<>>
               /\ p.payload = WriteBuf(x.payload)
               /\ codec.wire
                     = Serialise(p.flags, p.body, p.chain, p.payload)
               /\ (codec.phase = "read" /\ ~p.z)
                     => /\ codec.res.ok
                        /\ codec.res.val
                              = Request(x.id, x.wire_expr, x.mapping,
                                        x.payload, DefaultExts)

C16_Witness ==
    /\ Encoded
    /\ codec.phase = "read"
    /\ NonDefaultIds(codec.req) = <<QoSId, TimestampId, DestinationId, TargetId>>
    /\ Len(WireChain) = 4
    /\ codec.wire[Len(codec.wire) - Len(WriteBuf(codec.req.payload)) - 1]
          = ExtHeader(TargetId, EncZ64, FALSE)
    /\ codec.res.ok

\* The decoder has read bytes with an extension of unknown id inserted.
ReadInserted == codec.phase = "read" /\ codec.from = "inserted"

\* What the decoder reads from the bytes the encoder wrote for x.
Plain(x) ==
    ReadRequest(WriteRequest(x, codec.build.wrap).bytes,
                codec.build.complete_n)

\* The encoder has a value to write for the Target of x.
Representable(x) ==
    x.ext_target.t = "Complete" => 3 + x.ext_target.n \in ZInts

\* C15: an extension of an unknown id and of ENC Unit, Z64 or ZBuf
\* inserted at any position of the chain of an encoded Request m leaves
\* what the decoder reads as it is without the extension, that is m, and
\* the decoder consumes all the bytes; inserted with the reserved ENC it
\* makes the decoder fail.
C15_UnknownSkipped ==
    ReadInserted
        => LET e == codec.chain[1]
           IN  IF e.enc = EncReserved
               THEN ~codec.res.ok
               ELSE /\ codec.res.ok
                    /\ codec.res.rest = <<>>
                    /\ codec.res.val = Plain(codec.req).val
                    /\ Representable(codec.req)
                          => codec.res.val = codec.req

C15_Witness ==
    /\ ReadInserted
    /\ codec.chain[1].enc = EncZBuf
    /\ codec.chain[1].id \notin KnownIds
    /\ codec.pos = 1
    /\ Len(WireChain) = 5
    /\ WireChain[2] = codec.chain[1]
    /\ codec.res.ok
    /\ codec.res.val = codec.req
    /\ codec.res.rest = <<>>

\* The decoder has read bytes a peer wrote with the chain codec.chain.
ReadPeer == codec.phase = "read" /\ codec.from = "peer"

\* The extensions of id in the chain, in its order.
Of(chain, id) == SelectSeq(chain, LAMBDA e : e.id = id)

Last(s) == s[Len(s)]

\* The build's decoder has a Target for every Target value of the chain.
Decodable(chain) ==
    \A i \in 1..Len(chain) :
        (chain[i].id = TargetId /\ chain[i].z >= 3) => codec.build.complete_n

\* C17: the decoder accepts a chain of known extensions in any order and
\* with any id repeated; each field of the decoded Request holds the value
\* of the last extension of its id in the chain, or the default when
\* there is none.
C17_LastWriteWins ==
    (ReadPeer /\ Decodable(codec.chain))
        => LET ch == codec.chain
               r  == codec.res.val
           IN  /\ codec.res.ok
               /\ codec.res.rest = <<>>
               /\ r.ext_qos = IF Of(ch, QoSId) = <<>> THEN QoSDefault
                              ELSE Last(Of(ch, QoSId)).z
               /\ r.ext_tstamp = IF Of(ch, TimestampId) = <<>> THEN None
                                 ELSE Some(Last(Of(ch, TimestampId)).b)
               /\ r.ext_dst = IF Of(ch, DestinationId) = <<>>
                              THEN DestinationDefault ELSE "Subscribers"
               /\ r.ext_target = IF Of(ch, TargetId) = <<>> THEN TargetDefault
                                 ELSE Packed(Last(Of(ch, TargetId)).z)
               /\ r = [codec.req EXCEPT !.ext_qos = r.ext_qos,
                                        !.ext_tstamp = r.ext_tstamp,
                                        !.ext_dst = r.ext_dst,
                                        !.ext_target = r.ext_target]

C17_Witness ==
    /\ ReadPeer
    /\ Len(codec.chain) = 3
    /\ codec.chain[1].id = TargetId
    /\ codec.chain[2].id = QoSId
    /\ codec.chain[3].id = QoSId
    /\ codec.chain[2].z # codec.chain[3].z
    /\ codec.res.ok
    /\ codec.res.val.ext_qos = codec.chain[3].z
    /\ codec.res.val.ext_target = Packed(codec.chain[1].z)

(***************************************************************************)
(* Errors of the callback and the lanes' independence                      *)
(***************************************************************************)
\* C21: when the callback returns an error for the i-th message of an
\* accepted batch, handle_frame returns the error in that very step: the
\* callback has been handed messages 1..i of the batch in order, with Ok
\* for all but the last; the rest of the batch is held nowhere afterwards
\* (the call's queue is gone, the lane is as the frame left it, and what a
\* call in progress still has to deliver is always the rest of its own
\* frame), and the lane's mutex is free.
C21_ErrorStopsBatch ==
    [][\A l \in Links :
          /\ (pc[l] = "callback" /\ pc'[l] = "callback")
                => \A i \in 1..Len(cur'[l].rets) : cur'[l].rets[i] = "Ok"
          /\ (/\ Returns(l)
              /\ last'.msg.body = "Frame"
              /\ last'.lane # NoLane
              /\ last'.msg.payload.kind = "Messages"
              /\ last'.rets # <<>>
              /\ Last(last'.rets) = "Err")
                => LET i == Len(last'.calls)
                   IN  /\ Invokes(l)
                       /\ last'.ret = "Err"
                       /\ i = Len(cur[l].calls) + 1
                       /\ last'.calls
                             = SubSeq(last'.msg.payload.messages, 1, i)
                       /\ last'.rets
                             = [j \in 1..i |-> IF j < i THEN "Ok" ELSE "Err"]
                       /\ cur'[l] = NoCall
                       /\ lanes'[last'.lane] = lanes[last'.lane]
                       /\ mutex[last'.lane] = l
                       /\ mutex'[last'.lane] = "free"
          /\ (pc'[l] = "callback" /\ cur'[l].msg.payload.kind = "Messages")
                => cur'[l].calls \o cur'[l].queue
                      = cur'[l].msg.payload.messages
      ]_vars

C21_Witness ==
    /\ ToLane
    /\ last.accepted
    /\ last.msg.payload = Messages(<<MsgA, MsgB>>)
    /\ last.calls = <<MsgA>>
    /\ last.rets = <<"Err">>
    /\ last.ret = "Err"
    /\ mutex[last.lane] = "free"
    /\ \E k \in Links \ {last.link} :
          pc[k] = "lock" /\ cur[k].lane = last.lane

\* Link l is inside handle_frame for lane ln: it holds the lane's guard and
\* is handing the frame's messages to the callback.
InHandleFrame(l, ln) == pc[l] = "callback" /\ cur[l].lane = ln

\* The lane of a frame in a transport with QoS: its priority's conduit and
\* its reliability.
LaneOf(msg) == <<PriorityIndex(msg.priority), msg.reliability>>

\* A step of link l's handle_frame for the frame msg: it goes on to its
\* first callback or returns.
Handles(l, msg) ==
    /\ pc[l] \in {"recv", "lock"}
    /\ \/ pc'[l] = "callback" /\ cur'[l].msg = msg
       \/ Returns(l) /\ last'.msg = msg

\* At most one link at a time is inside handle_frame for a lane, and its
\* mutex is then that link's.
LaneExclusion ==
    \A ln \in Lanes :
        /\ \A l, k \in Links :
              (InHandleFrame(l, ln) /\ InHandleFrame(k, ln)) => l = k
        /\ \A l \in Links : InHandleFrame(l, ln) <=> mutex[ln] = l

\* A lane changes only in a step of handle_frame for a frame of its own
\* priority and reliability, taken with the lane's mutex free, and to what
\* handle_frame makes of that lane alone and the frame; every other lane
\* stays as it is.
LaneIndependence ==
    \A ln \in Lanes :
        lanes'[ln] # lanes[ln]
            => \E l \in Links : \E msg \in {cur'[l].msg, last'.msg} :
                  /\ msg.body = "Frame"
                  /\ Handles(l, msg)
                  /\ LaneOf(msg) = ln
                  /\ mutex[ln] = "free"
                  /\ \E keep \in BOOLEAN :
                        lanes'[ln] = HandleFrame(lanes[ln], msg.sn,
                                                 msg.payload, keep).lane
                  /\ \A other \in Lanes \ {ln} : lanes'[other] = lanes[other]

\* C22: whatever the interleaving of the links' receive_message calls, at
\* most one link at a time is inside handle_frame for a lane, and handling
\* a frame changes the sn and the defragmenter of the frame's own lane
\* only, from that lane's state alone: the reliable and the best-effort
\* lane of a conduit and the lanes of different priorities are independent.
C22_LanesIndependent == []LaneExclusion /\ [][LaneIndependence]_vars

C22_Witness ==
    /\ InHandleFrame("l1", <<1, "Reliable">>)
    /\ InHandleFrame("l2", <<1, "BestEffort">>)
    /\ lanes[<<1, "Reliable">>].sn # lanes[<<1, "BestEffort">>].sn
    /\ ~DefragIsEmpty(lanes[<<0, "Reliable">>].defrag)

====
